---- MODULE Spec2Model ----
(***************************************************************************)
(* A model of NamedVec<T> (src/src/lib.rs): a Vec<T> of named elements     *)
(* together with a HashMap<String, usize> from each element's name to its  *)
(* position.  Every public method is a pure operator from the value of the *)
(* struct (and the arguments) to the value of the struct after the call,   *)
(* the returned Option and whether the call panicked; one action per       *)
(* method applies it to the state.  Positions are 0-based as in the source *)
(* (items[i] of the source is items[i + 1] of the TLA+ sequence).          *)
(***************************************************************************)
EXTENDS Integers, Sequences, FiniteSets, TLC

VARIABLES
    items,      \* NamedVec::items, the Vec<T>
    map,        \* NamedVec::map, the HashMap<String, usize>
    call,       \* the last call made on the collection and its arguments
    ret,        \* what that call returned, as an Option: <<>> or <<v>>
    panicked,   \* TRUE when that call panicked instead of returning
    old,        \* the struct as it was when that call was made
    plain       \* a NamedVec built by new() that is given the same calls,
                \* except reserve and shrink_to_fit

vars == <<items, map, call, ret, panicked, old, plain>>

-----------------------------------------------------------------------------
(* Bounds of the model *)

\* Largest length the sequence is grown to.
MaxLen == 3

\* Largest position / length / capacity passed as an argument.
MaxArg == 4

\* The names elements can report; more names than MaxLen, so that a push of
\* a fresh name is possible at every length.
Names == {"a", "b", "c", "d"}

\* The payloads that tell two elements of the same name apart.
Payloads == {1, 2}

-----------------------------------------------------------------------------
(* The element type T: Named, and Option *)

\* A value of a type T that implements Named: name() returns the field name.
Elements == [name : Names, payload : Payloads]

name(item) == item.name

None == <<>>

Some(v) == <<v>>

is_some(o) == o # None

unwrap(o) == o[1]

-----------------------------------------------------------------------------
(* Lookup *)

LookupName(s) == [tag |-> "Name", name |-> s]

LookupIndex(i) == [tag |-> "Index", index |-> i]

\* impl From<&str> for Lookup and impl From<usize> for Lookup
Lookups == {LookupName(s) : s \in Names} \cup {LookupIndex(i) : i \in 0..MaxArg}

-----------------------------------------------------------------------------
(* Vec<T> and HashMap<String, usize> as the source uses them *)

\* HashMap::new()
EmptyMap == [s \in {} |-> 0]

\* HashMap::get
MapGet(m, s) == IF s \in DOMAIN m THEN Some(m[s]) ELSE None

\* HashMap::insert
MapInsert(m, s, i) == [x \in (DOMAIN m) \cup {s} |-> IF x = s THEN i ELSE m[x]]

\* HashMap::remove
MapRemove(m, s) == [x \in (DOMAIN m) \ {s} |-> m[x]]

\* HashMap::values().max()
MapValuesMax(m) ==
    IF DOMAIN m = {} THEN None
    ELSE Some(CHOOSE v \in {m[s] : s \in DOMAIN m} :
                  \A s \in DOMAIN m : m[s] <= v)

\* Vec::get
VecGet(v, i) == IF i < Len(v) THEN Some(v[i + 1]) ELSE None

\* v[i] = item
VecSet(v, i, item) == [v EXCEPT ![i + 1] = item]

\* Vec::swap
VecSwap(v, i, j) == [v EXCEPT ![i + 1] = v[j + 1], ![j + 1] = v[i + 1]]

\* Vec::truncate
VecTruncate(v, len) == IF len < Len(v) THEN SubSeq(v, 1, len) ELSE v

\* &v[from..to], for from <= to <= v.len()
VecSlice(v, from, to) == SubSeq(v, from + 1, to)


-----------------------------------------------------------------------------
(* NamedVec<T> *)

NamedVec(m, v) == [map |-> m, items |-> v]

\* What a call yields: the struct after it, the Option it returned (None
\* for a method that returns ()), and whether it panicked.
Returned(self, r) == [self |-> self, ret |-> r, panicked |-> FALSE]

Panicked(self) == [self |-> self, ret |-> None, panicked |-> TRUE]

new == NamedVec(EmptyMap, <<>>)

with_capacity(capacity) == NamedVec(EmptyMap, <<>>)

len(self) == Len(self.items)

index_from_lookup(self, lookup) ==
    IF lookup.tag = "Name"
    THEN MapGet(self.map, lookup.name)
    ELSE Some(lookup.index)

name_from_lookup(self, lookup) ==
    IF lookup.tag = "Name"
    THEN Some(lookup.name)
    ELSE LET s == VecGet(self.items, lookup.index)
         IN  IF is_some(s) THEN Some(name(unwrap(s))) ELSE None

\* push as it would be if it appended without looking the name up.
push_always_append(self, item) ==
    Returned(NamedVec(MapInsert(self.map, name(item), len(self)),
                      Append(self.items, item)), None)

\* push as it would be if it recorded the position after appending, that is
\* self.items.len() of the grown vector.
push_insert_after(self, item) ==
    LET found == MapGet(self.map, name(item))
    IN  IF is_some(found)
        THEN IF unwrap(found) < Len(self.items)
             THEN Returned(NamedVec(self.map,
                                    VecSet(self.items, unwrap(found), item)),
                           None)
             ELSE Panicked(self)
        ELSE Returned(NamedVec(MapInsert(self.map, name(item), len(self) + 1),
                               Append(self.items, item)), None)

push(self, item) ==
    LET found == MapGet(self.map, name(item))
    IN  IF is_some(found)
        THEN IF unwrap(found) < Len(self.items)
             THEN Returned(NamedVec(self.map,
                                    VecSet(self.items, unwrap(found), item)),
                           None)
             ELSE Panicked(self)    \* self.items[i] out of bounds
        ELSE Returned(NamedVec(MapInsert(self.map, name(item), len(self)),
                               Append(self.items, item)), None)

\* pop as it would be if it took an only element for none.
pop_guard_off_by_one(self) ==
    IF Len(self.items) <= 1
    THEN Returned(self, None)
    ELSE LET last_item == self.items[Len(self.items)]
         IN  Returned(NamedVec(MapRemove(self.map, name(last_item)),
                               SubSeq(self.items, 1, Len(self.items) - 1)),
                      Some(last_item))

\* pop as it would be if it left the name of the popped element in the map.
pop_keep_name(self) ==
    IF Len(self.items) = 0
    THEN Returned(self, None)
    ELSE LET last_item == self.items[Len(self.items)]
         IN  Returned(NamedVec(self.map,
                               SubSeq(self.items, 1, Len(self.items) - 1)),
                      Some(last_item))

pop(self) ==
    IF Len(self.items) = 0
    THEN Returned(self, None)
    ELSE LET last_item == self.items[Len(self.items)]
         IN  Returned(NamedVec(MapRemove(self.map, name(last_item)),
                               SubSeq(self.items, 1, Len(self.items) - 1)),
                      Some(last_item))

\* The loop of truncate: self.map.remove(item.name()) for each item of the
\* slice, in order.
RECURSIVE RemoveNames(_, _)
RemoveNames(m, slice) ==
    IF slice = <<>> THEN m
    ELSE RemoveNames(MapRemove(m, name(Head(slice))), Tail(slice))

\* truncate as it would be if the slice of names to remove began one
\* position late, at items[len+1..max+1].
truncate_skip_first(self, n) ==
    IF n < len(self)
    THEN LET max == MapValuesMax(self.map)
         IN  IF ~is_some(max)
             THEN Panicked(self)
             ELSE IF n + 1 > unwrap(max) + 1
                     \/ unwrap(max) + 1 > Len(self.items)
             THEN Panicked(self)
             ELSE Returned(
                      NamedVec(RemoveNames(self.map,
                                   VecSlice(self.items, n + 1,
                                            unwrap(max) + 1)),
                               VecTruncate(self.items, n)),
                      None)
    ELSE Returned(self, None)

\* truncate as it would be without the test len < self.len().
truncate_unguarded(self, n) ==
    LET max == MapValuesMax(self.map)
    IN  IF ~is_some(max)
        THEN Panicked(self)
        ELSE IF n > unwrap(max) + 1 \/ unwrap(max) + 1 > Len(self.items)
        THEN Panicked(self)
        ELSE Returned(
                 NamedVec(RemoveNames(self.map,
                              VecSlice(self.items, n, unwrap(max) + 1)),
                          VecTruncate(self.items, n)),
                 None)

\* truncate as it would be if it shortened the vector before it walked the
\* slice items[len..max+1] of the names to remove.
truncate_items_first(self, n) ==
    IF n < len(self)
    THEN LET max == MapValuesMax(self.map)
             shortened == VecTruncate(self.items, n)
         IN  IF ~is_some(max)
             THEN Panicked(self)
             ELSE IF n > unwrap(max) + 1 \/ unwrap(max) + 1 > Len(shortened)
             THEN Panicked(NamedVec(self.map, shortened))
             ELSE Returned(
                      NamedVec(RemoveNames(self.map,
                                   VecSlice(shortened, n, unwrap(max) + 1)),
                               shortened),
                      None)
    ELSE Returned(self, None)

truncate(self, n) ==
    IF n < len(self)
    THEN LET max == MapValuesMax(self.map)
         IN  IF ~is_some(max)
             THEN Panicked(self)    \* unwrap() of the max of no values
             ELSE IF n > unwrap(max) + 1 \/ unwrap(max) + 1 > Len(self.items)
             THEN Panicked(self)    \* self.items[len..max+1] out of bounds
             ELSE Returned(
                      NamedVec(RemoveNames(self.map,
                                   VecSlice(self.items, n, unwrap(max) + 1)),
                               VecTruncate(self.items, n)),
                      None)
    ELSE Returned(self, None)

\* reserve as it would be if it replaced the map by a new, larger one
\* without moving the entries over.
reserve_rebuild_map(self, additional) ==
    Returned(NamedVec(EmptyMap, self.items), None)

\* self.items.reserve(additional); self.map.reserve(additional): both
\* change the allocation of their collection and neither its contents.  The
\* allocated capacity is a property of the Vec and the HashMap that no
\* method of NamedVec but capacity() reads, and it is not part of the
\* struct's value here.  The lengths and arguments of the model are far
\* below the overflow of usize on which reserve panics.
reserve(self, additional) == Returned(self, None)

\* self.items.shrink_to_fit(); self.map.shrink_to_fit()
shrink_to_fit(self) == Returned(self, None)

\* clear as it would be if it cleared the vector and forgot the map.
clear_items_only(self) == Returned(NamedVec(self.map, <<>>), None)

clear(self) == Returned(NamedVec(EmptyMap, <<>>), None)

\* is_empty as it would be with the comparison inverted.
is_empty_inverted(self) == len(self) # 0

is_empty(self) == len(self) = 0

\* get as it would be if it indexed the vector, self.items[i], instead of
\* calling Vec::get.
get_index_panics(self, lookup) ==
    LET i == index_from_lookup(self, lookup)
    IN  IF is_some(i)
        THEN IF unwrap(i) < Len(self.items)
             THEN Returned(self, Some(self.items[unwrap(i) + 1]))
             ELSE Panicked(self)
        ELSE Returned(self, None)

get(self, lookup) ==
    LET i == index_from_lookup(self, lookup)
    IN  IF is_some(i)
        THEN Returned(self, VecGet(self.items, unwrap(i)))
        ELSE Returned(self, None)

\* get_mut: the same resolution as get; the Option returned is a mutable
\* reference to the element, and the call itself changes nothing.
get_mut(self, lookup) ==
    LET i == index_from_lookup(self, lookup)
    IN  IF is_some(i)
        THEN Returned(self, VecGet(self.items, unwrap(i)))
        ELSE Returned(self, None)

\* What the caller of get_mut does with the reference: nothing (None), or
\* an assignment of a value to the element it points to (Some(value)).
Writes == {None} \cup {Some(item) : item \in Elements}

\* The struct after the caller of get_mut(lookup) has made the write w
\* through the reference it got: the element at the resolved position is
\* the value written, and the map, which get_mut does not touch, is as it
\* was.
Written(self, lookup, w) ==
    LET i == index_from_lookup(self, lookup)
    IN  IF is_some(w) /\ is_some(get_mut(self, lookup).ret)
        THEN NamedVec(self.map, VecSet(self.items, unwrap(i), unwrap(w)))
        ELSE self

\* The write w through the reference of get_mut(lookup) leaves name() of
\* the element as it was: the obligation of the caller, on which the
\* agreement of the sequence and the map rests.
KeepsName(self, lookup, w) ==
    (is_some(w) /\ is_some(get_mut(self, lookup).ret)) =>
        name(unwrap(w)) = name(unwrap(get_mut(self, lookup).ret))

\* swap as it would be if it exchanged the elements and left the map alone.
swap_stale_map(self, first, second) ==
    LET old_i1 == index_from_lookup(self, first)
        old_i2 == index_from_lookup(self, second)
    IN  IF ~is_some(old_i1) \/ ~is_some(old_i2)
        THEN Panicked(self)
        ELSE IF unwrap(old_i1) = unwrap(old_i2)
        THEN Returned(self, None)
        ELSE IF unwrap(old_i1) < Len(self.items)
                /\ unwrap(old_i2) < Len(self.items)
        THEN Returned(NamedVec(self.map,
                               VecSwap(self.items, unwrap(old_i1),
                                       unwrap(old_i2))), None)
        ELSE Panicked(self)

\* swap as it would be if it updated the map entry of the first name only.
swap_one_insert(self, first, second) ==
    LET old_i1 == index_from_lookup(self, first)
        old_i2 == index_from_lookup(self, second)
    IN  IF ~is_some(old_i1) \/ ~is_some(old_i2)
        THEN Panicked(self)
        ELSE IF unwrap(old_i1) = unwrap(old_i2)
        THEN Returned(self, None)
        ELSE LET old_s1 == name_from_lookup(self, first)
                 old_s2 == name_from_lookup(self, second)
             IN  IF ~is_some(old_s1) \/ ~is_some(old_s2)
                 THEN Panicked(self)
                 ELSE LET m1 == MapInsert(self.map, unwrap(old_s1),
                                          unwrap(old_i2))
                      IN  IF unwrap(old_i1) < Len(self.items)
                             /\ unwrap(old_i2) < Len(self.items)
                          THEN Returned(
                                   NamedVec(m1, VecSwap(self.items,
                                                        unwrap(old_i1),
                                                        unwrap(old_i2))),
                                   None)
                          ELSE Panicked(NamedVec(m1, self.items))

\* swap as it would be without the early return for equal positions, with
\* the elements exchanged through two disjoint mutable borrows
\* (split_at_mut), which do not exist for a position and itself.
swap_split_at_mut(self, first, second) ==
    LET old_i1 == index_from_lookup(self, first)
        old_i2 == index_from_lookup(self, second)
    IN  IF ~is_some(old_i1) \/ ~is_some(old_i2)
        THEN Panicked(self)
        ELSE LET old_s1 == name_from_lookup(self, first)
                 old_s2 == name_from_lookup(self, second)
             IN  IF ~is_some(old_s1) \/ ~is_some(old_s2)
                 THEN Panicked(self)
                 ELSE LET m1 == MapInsert(self.map, unwrap(old_s1),
                                          unwrap(old_i2))
                          m2 == MapInsert(m1, unwrap(old_s2), unwrap(old_i1))
                      IN  IF unwrap(old_i1) < Len(self.items)
                             /\ unwrap(old_i2) < Len(self.items)
                             /\ unwrap(old_i1) # unwrap(old_i2)
                          THEN Returned(
                                   NamedVec(m2, VecSwap(self.items,
                                                        unwrap(old_i1),
                                                        unwrap(old_i2))),
                                   None)
                          ELSE Panicked(NamedVec(m2, self.items))

\* swap as it would be if it looked the second name up only after it had
\* inserted the first one.
swap_insert_before_second_name(self, first, second) ==
    LET old_i1 == index_from_lookup(self, first)
        old_i2 == index_from_lookup(self, second)
    IN  IF ~is_some(old_i1) \/ ~is_some(old_i2)
        THEN Panicked(self)
        ELSE IF unwrap(old_i1) = unwrap(old_i2)
        THEN Returned(self, None)
        ELSE LET old_s1 == name_from_lookup(self, first)
             IN  IF ~is_some(old_s1)
                 THEN Panicked(self)
                 ELSE LET m1 == MapInsert(self.map, unwrap(old_s1),
                                          unwrap(old_i2))
                          after == NamedVec(m1, self.items)
                          old_s2 == name_from_lookup(after, second)
                      IN  IF ~is_some(old_s2)
                          THEN Panicked(after)
                          ELSE LET m2 == MapInsert(m1, unwrap(old_s2),
                                                   unwrap(old_i1))
                               IN  IF unwrap(old_i1) < Len(self.items)
                                      /\ unwrap(old_i2) < Len(self.items)
                                   THEN Returned(
                                            NamedVec(m2,
                                                VecSwap(self.items,
                                                        unwrap(old_i1),
                                                        unwrap(old_i2))),
                                            None)
                                   ELSE Panicked(NamedVec(m2, self.items))

\* swap as it would be if it exchanged the elements first and read the two
\* names afterwards.
swap_names_after_swap(self, first, second) ==
    LET old_i1 == index_from_lookup(self, first)
        old_i2 == index_from_lookup(self, second)
    IN  IF ~is_some(old_i1) \/ ~is_some(old_i2)
        THEN Panicked(self)
        ELSE IF unwrap(old_i1) = unwrap(old_i2)
        THEN Returned(self, None)
        ELSE IF ~(unwrap(old_i1) < Len(self.items)
                  /\ unwrap(old_i2) < Len(self.items))
        THEN Panicked(self)
        ELSE LET after == NamedVec(self.map,
                                   VecSwap(self.items, unwrap(old_i1),
                                           unwrap(old_i2)))
                 old_s1 == name_from_lookup(after, first)
                 old_s2 == name_from_lookup(after, second)
             IN  IF ~is_some(old_s1) \/ ~is_some(old_s2)
                 THEN Panicked(after)
                 ELSE Returned(
                          NamedVec(MapInsert(MapInsert(self.map,
                                                 unwrap(old_s1),
                                                 unwrap(old_i2)),
                                             unwrap(old_s2), unwrap(old_i1)),
                                   after.items),
                          None)

\* swap as it would be if both names were sent to the second position.
swap_both_to_second(self, first, second) ==
    LET old_i1 == index_from_lookup(self, first)
        old_i2 == index_from_lookup(self, second)
    IN  IF ~is_some(old_i1) \/ ~is_some(old_i2)
        THEN Panicked(self)
        ELSE IF unwrap(old_i1) = unwrap(old_i2)
        THEN Returned(self, None)
        ELSE LET old_s1 == name_from_lookup(self, first)
                 old_s2 == name_from_lookup(self, second)
             IN  IF ~is_some(old_s1) \/ ~is_some(old_s2)
                 THEN Panicked(self)
                 ELSE LET m1 == MapInsert(self.map, unwrap(old_s1),
                                          unwrap(old_i2))
                          m2 == MapInsert(m1, unwrap(old_s2), unwrap(old_i2))
                      IN  IF unwrap(old_i1) < Len(self.items)
                             /\ unwrap(old_i2) < Len(self.items)
                          THEN Returned(
                                   NamedVec(m2, VecSwap(self.items,
                                                        unwrap(old_i1),
                                                        unwrap(old_i2))),
                                   None)
                          ELSE Panicked(NamedVec(m2, self.items))

swap(self, first, second) ==
    LET old_i1 == index_from_lookup(self, first)
        old_i2 == index_from_lookup(self, second)
    IN  IF ~is_some(old_i1) \/ ~is_some(old_i2)
        THEN Panicked(self)
        ELSE IF unwrap(old_i1) = unwrap(old_i2)
        THEN Returned(self, None)
        ELSE LET old_s1 == name_from_lookup(self, first)
                 old_s2 == name_from_lookup(self, second)
             IN  IF ~is_some(old_s1) \/ ~is_some(old_s2)
                 THEN Panicked(self)
                 ELSE LET m1 == MapInsert(self.map, unwrap(old_s1),
                                          unwrap(old_i2))
                          m2 == MapInsert(m1, unwrap(old_s2), unwrap(old_i1))
                      IN  IF unwrap(old_i1) < Len(self.items)
                             /\ unwrap(old_i2) < Len(self.items)
                          THEN Returned(
                                   NamedVec(m2, VecSwap(self.items,
                                                        unwrap(old_i1),
                                                        unwrap(old_i2))),
                                   None)
                          \* Vec::swap out of bounds, after both inserts
                          ELSE Panicked(NamedVec(m2, self.items))

\* impl Index<Range<usize>> as it would be if it cut the range down to the
\* length instead of indexing the vector with it.
index_Range_clamped(self, from, to) ==
    LET end == IF to > Len(self.items) THEN Len(self.items) ELSE to
    IN  IF from > end
        THEN Returned(self, Some(<<>>))
        ELSE Returned(self, Some(VecSlice(self.items, from, end)))

\* impl Index<Range<usize>>: &self.items[index], for index = from..to
index_Range(self, from, to) ==
    IF from > to \/ to > Len(self.items)
    THEN Panicked(self)
    ELSE Returned(self, Some(VecSlice(self.items, from, to)))

\* impl Index<RangeTo<usize>>: &self.items[..to]
index_RangeTo(self, to) ==
    IF to > Len(self.items)
    THEN Panicked(self)
    ELSE Returned(self, Some(VecSlice(self.items, 0, to)))

\* impl Index<RangeFrom<usize>>: &self.items[from..]
index_RangeFrom(self, from) ==
    IF from > Len(self.items)
    THEN Panicked(self)
    ELSE Returned(self, Some(VecSlice(self.items, from, Len(self.items))))

\* impl Index<RangeFull>: &self.items
index_RangeFull(self) == Returned(self, Some(self.items))

-----------------------------------------------------------------------------
(* The state machine: one action per public method *)

Self == NamedVec(map, items)

\* The struct after the call c made on self, for the calls that take
\* &mut self other than reserve and shrink_to_fit (for get_mut, after the
\* write of the caller); self for the others.
Replay(c, self) ==
    CASE c.op = "push" -> push(self, c.item).self
      [] c.op = "pop" -> pop(self).self
      [] c.op = "truncate" -> truncate(self, c.len).self
      [] c.op = "clear" -> clear(self).self
      [] c.op = "swap" -> swap(self, c.first, c.second).self
      [] c.op = "get_mut" -> Written(self, c.lookup, c.write)
      [] OTHER -> self

\* The state after a call c that yielded r.
Apply(c, r) ==
    /\ items' = r.self.items
    /\ map' = r.self.map
    /\ ret' = r.ret
    /\ panicked' = r.panicked
    /\ call' = c
    /\ old' = Self
    /\ plain' = Replay(c, plain)

InitNew ==
    /\ items = new.items
    /\ map = new.map
    /\ call = [op |-> "new"]

InitWithCapacity ==
    \E capacity \in 0..MaxArg :
        /\ items = with_capacity(capacity).items
        /\ map = with_capacity(capacity).map
        /\ call = [op |-> "with_capacity", capacity |-> capacity]

Init ==
    /\ InitNew \/ InitWithCapacity
    /\ ret = None
    /\ panicked = FALSE
    /\ old = Self
    /\ plain = new

Push ==
    \E item \in Elements :
        /\ Len(items) < MaxLen \/ name(item) \in DOMAIN map
        /\ Apply([op |-> "push", item |-> item], push(Self, item))

Pop == Apply([op |-> "pop"], pop(Self))

Truncate ==
    \E n \in 0..MaxArg :
        Apply([op |-> "truncate", len |-> n], truncate(Self, n))

Clear == Apply([op |-> "clear"], clear(Self))

Get ==
    \E lookup \in Lookups :
        Apply([op |-> "get", lookup |-> lookup], get(Self, lookup))

\* get_mut(lookup) and the write w of the caller through the reference
\* returned; there is a write only when there is a reference.
GetMutWrite(lookup, w) ==
    /\ is_some(w) => is_some(get_mut(Self, lookup).ret)
    /\ Apply([op |-> "get_mut", lookup |-> lookup, write |-> w],
             [get_mut(Self, lookup) EXCEPT
                  !.self = Written(Self, lookup, w)])

\* get_mut by a caller that keeps the names of the elements.
GetMut ==
    \E lookup \in Lookups, w \in Writes :
        /\ KeepsName(Self, lookup, w)
        /\ GetMutWrite(lookup, w)

\* get_mut by a caller that gives an element another name.
GetMutRename ==
    \E lookup \in Lookups, w \in Writes :
        /\ ~KeepsName(Self, lookup, w)
        /\ GetMutWrite(lookup, w)

Swap ==
    \E first \in Lookups, second \in Lookups :
        Apply([op |-> "swap", first |-> first, second |-> second],
              swap(Self, first, second))

Reserve ==
    \E additional \in 0..MaxArg :
        Apply([op |-> "reserve", additional |-> additional],
              reserve(Self, additional))

ShrinkToFit == Apply([op |-> "shrink_to_fit"], shrink_to_fit(Self))

LenQuery == Apply([op |-> "len"], Returned(Self, Some(len(Self))))

IsEmpty == Apply([op |-> "is_empty"], Returned(Self, Some(is_empty(Self))))

IndexRange ==
    \E from \in 0..MaxArg, to \in 0..MaxArg :
        Apply([op |-> "index_Range", from |-> from, to |-> to],
              index_Range(Self, from, to))

IndexRangeTo ==
    \E to \in 0..MaxArg :
        Apply([op |-> "index_RangeTo", to |-> to], index_RangeTo(Self, to))

IndexRangeFrom ==
    \E from \in 0..MaxArg :
        Apply([op |-> "index_RangeFrom", from |-> from],
              index_RangeFrom(Self, from))

IndexRangeFull == Apply([op |-> "index_RangeFull"], index_RangeFull(Self))

Next ==
    \/ Push \/ Pop \/ Truncate \/ Clear \/ Get \/ GetMut \/ Swap
    \/ Reserve \/ ShrinkToFit
    \/ LenQuery \/ IsEmpty
    \/ IndexRange \/ IndexRangeTo \/ IndexRangeFrom \/ IndexRangeFull

\* The collection used by callers that keep the names of the elements
\* stable, as every property below assumes.
Spec == Init /\ [][Next]_vars

\* The collection used by any caller, renaming through get_mut included: the
\* map then goes stale, and push, truncate and swap can panic.
NextRenaming == Next \/ GetMutRename

SpecRenaming == Init /\ [][NextRenaming]_vars

-----------------------------------------------------------------------------
(* Vocabulary of the properties *)

\* The positions of a sequence, 0-based.
Positions(v) == 0..(Len(v) - 1)

\* The element at 0-based position i of v.
At(v, i) == v[i + 1]

\* A lookup key resolves in self: a name that is in the map, or a position
\* below the length.
Resolves(self, lookup) ==
    IF lookup.tag = "Name"
    THEN lookup.name \in DOMAIN self.map
    ELSE lookup.index < Len(self.items)

\* The position a resolving key stands for.
PositionOf(self, lookup) ==
    IF lookup.tag = "Name" THEN self.map[lookup.name] ELSE lookup.index

\* The names of the elements of v.
NamesOf(v) == {name(At(v, i)) : i \in Positions(v)}

-----------------------------------------------------------------------------
(* C1 *)

\* C1: index consistency.  In every state reachable from new() or
\* with_capacity(n) by push, pop, truncate, clear and swap, the map sends the
\* name of the element at every position i < len to i, and the map has no
\* entry for any other name.
C1_IndexConsistency ==
    /\ \A i \in Positions(items) :
           /\ name(At(items, i)) \in DOMAIN map
           /\ map[name(At(items, i))] = i
    /\ \A s \in DOMAIN map : s \in NamesOf(items)

\* A swap has exchanged two elements of a collection of three or more.
C1_Witness ==
    /\ call.op = "swap"
    /\ ~panicked
    /\ items # old.items
    /\ Len(items) >= 3

-----------------------------------------------------------------------------
(* C2 *)

\* C2: name uniqueness.  In every reachable state no two positions hold
\* elements of the same name, and the map has as many entries as the
\* sequence has elements.
C2_NameUniqueness ==
    /\ \A i \in Positions(items) : \A j \in Positions(items) :
           i # j => name(At(items, i)) # name(At(items, j))
    /\ Cardinality(DOMAIN map) = Len(items)

\* A push of a name already in use has been made on a collection of two or
\* more elements, with an element that differs from the one it replaces.
C2_Witness ==
    /\ call.op = "push"
    /\ name(call.item) \in DOMAIN old.map
    /\ items # old.items
    /\ Len(items) >= 2

-----------------------------------------------------------------------------
(* C3 *)

\* C3: upsert.  push(e) returns normally and either (a) an element named
\* name(e) was at position p: e is now at p, the length, the map and every
\* other position are as before; or (b) no element had that name: e is
\* appended at position old_len, the map gains name(e) -> old_len and is
\* otherwise as before, the length grows by exactly 1 and the positions
\* below old_len are as before.
C3_Upsert ==
    call.op = "push" =>
        LET e == call.item
            old_len == Len(old.items)
        IN  /\ ~panicked
            /\ \A p \in Positions(old.items) :
                   name(At(old.items, p)) = name(e) =>
                       /\ Len(items) = old_len
                       /\ At(items, p) = e
                       /\ map = old.map
                       /\ \A q \in Positions(old.items) :
                              q # p => At(items, q) = At(old.items, q)
            /\ name(e) \notin NamesOf(old.items) =>
                   /\ Len(items) = old_len + 1
                   /\ At(items, old_len) = e
                   /\ DOMAIN map = (DOMAIN old.map) \cup {name(e)}
                   /\ map[name(e)] = old_len
                   /\ \A s \in DOMAIN old.map : map[s] = old.map[s]
                   /\ \A q \in Positions(old.items) :
                          At(items, q) = At(old.items, q)

\* A push has replaced an element that was not the last one by an element
\* of the same name and another payload.
C3_Witness ==
    /\ call.op = "push"
    /\ Len(old.items) >= 2
    /\ name(call.item) = name(At(old.items, 0))
    /\ call.item # At(old.items, 0)
    /\ At(items, 0) = call.item

-----------------------------------------------------------------------------
(* C4 *)

\* C4: swap panics for every pair of lookup keys, equal or distinct, of
\* which at least one does not resolve in the state it is called in (a name
\* that is not in the map, a position >= len); it never returns normally.
C4_SwapUnresolvedPanics ==
    (/\ call.op = "swap"
     /\ ~Resolves(old, call.first) \/ ~Resolves(old, call.second))
        => panicked

-----------------------------------------------------------------------------
(* C5 *)

\* C5: swap cross.  When the two keys resolve to distinct valid positions i
\* and j, swap returns normally, the element formerly at i is at j and the
\* one formerly at j is at i, the map sends each of the two names to the
\* position the other element vacated, every other position and every other
\* map entry is as before, and so is the length.
C5_SwapCross ==
    (/\ call.op = "swap"
     /\ Resolves(old, call.first)
     /\ Resolves(old, call.second)
     /\ PositionOf(old, call.first) < Len(old.items)
     /\ PositionOf(old, call.second) < Len(old.items)
     /\ PositionOf(old, call.first) # PositionOf(old, call.second))
        => LET i == PositionOf(old, call.first)
               j == PositionOf(old, call.second)
               si == name(At(old.items, i))
               sj == name(At(old.items, j))
           IN  /\ ~panicked
               /\ Len(items) = Len(old.items)
               /\ At(items, j) = At(old.items, i)
               /\ At(items, i) = At(old.items, j)
               /\ \A q \in Positions(old.items) :
                      q \notin {i, j} => At(items, q) = At(old.items, q)
               /\ DOMAIN map = DOMAIN old.map
               /\ si \in DOMAIN map /\ map[si] = j
               /\ sj \in DOMAIN map /\ map[sj] = i
               /\ \A s \in DOMAIN old.map :
                      s \notin {si, sj} => map[s] = old.map[s]

\* A swap called with a name and a position has exchanged the first and the
\* last of three elements.
C5_Witness ==
    /\ call.op = "swap"
    /\ call.first.tag = "Name"
    /\ call.second.tag = "Index"
    /\ Len(old.items) = 3
    /\ Resolves(old, call.first)
    /\ PositionOf(old, call.first) = 0
    /\ call.second.index = 2
    /\ At(items, 2) = At(old.items, 0)

-----------------------------------------------------------------------------
(* C6 *)

\* C6: truncate boundary.  truncate(n) with n < len returns normally, leaves
\* the positions below n and their map entries as they were, sets the
\* length to n and removes from the map the name of every element formerly
\* at a position from n to len - 1: afterwards get by any of those names
\* returns None and get by any position >= n returns None.
C6_TruncateBoundary ==
    (call.op = "truncate" /\ call.len < Len(old.items)) =>
        /\ ~panicked
        /\ Len(items) = call.len
        /\ \A q \in 0..(call.len - 1) :
               /\ At(items, q) = At(old.items, q)
               /\ name(At(old.items, q)) \in DOMAIN map
               /\ map[name(At(old.items, q))] = old.map[name(At(old.items, q))]
        /\ \A q \in call.len..(Len(old.items) - 1) :
               /\ name(At(old.items, q)) \notin DOMAIN map
               /\ get(Self, LookupName(name(At(old.items, q)))).ret = None
        /\ \A q \in call.len..MaxArg :
               get(Self, LookupIndex(q)).ret = None

\* A truncate has dropped the last two of three elements.
C6_Witness ==
    /\ call.op = "truncate"
    /\ call.len = 1
    /\ Len(old.items) = 3
    /\ Len(items) = 1

-----------------------------------------------------------------------------
(* C7 *)

\* C7: truncate no-op.  truncate(n) with n >= len (n = len and any n on an
\* empty collection included) returns normally and leaves the sequence and
\* the map as they were.
C7_TruncateNoOp ==
    (call.op = "truncate" /\ call.len >= Len(old.items)) =>
        /\ ~panicked
        /\ items = old.items
        /\ map = old.map

\* A truncate to more than the length has been made on a collection of two
\* or more elements.
C7_Witness ==
    /\ call.op = "truncate"
    /\ Len(old.items) >= 2
    /\ call.len > Len(old.items)
    /\ items = old.items

-----------------------------------------------------------------------------
(* C8 *)

\* C8: pop.  On a non-empty collection pop returns the element at position
\* len - 1, decreases the length by exactly 1, removes that element's name
\* from the map and leaves every other position and entry as it was; on an
\* empty collection it returns None without panicking and leaves the
\* collection as it was, of length 0.
C8_Pop ==
    call.op = "pop" =>
        /\ ~panicked
        /\ Len(old.items) > 0 =>
               LET last_item == At(old.items, Len(old.items) - 1)
               IN  /\ ret = Some(last_item)
                   /\ Len(items) = Len(old.items) - 1
                   /\ \A q \in Positions(items) :
                          At(items, q) = At(old.items, q)
                   /\ DOMAIN map = (DOMAIN old.map) \ {name(last_item)}
                   /\ \A s \in DOMAIN map : map[s] = old.map[s]
        /\ Len(old.items) = 0 =>
               /\ ret = None
               /\ items = old.items
               /\ map = old.map
               /\ Len(items) = 0

\* A pop has taken the last of three elements.
C8_Witness ==
    /\ call.op = "pop"
    /\ Len(old.items) = 3
    /\ ret = Some(At(old.items, 2))
    /\ Len(items) = 2

-----------------------------------------------------------------------------
(* C9 *)

\* C9: pop/push duality.  In every reachable non-empty state, pop followed
\* by push of the popped element yields a sequence and a map equal to those
\* before the pop.
C9_PopPushDuality ==
    Len(items) > 0 =>
        LET popped == pop(Self)
        IN  /\ ~popped.panicked
            /\ is_some(popped.ret)
            /\ LET pushed == push(popped.self, unwrap(popped.ret))
               IN  /\ ~pushed.panicked
                   /\ pushed.self.items = items
                   /\ pushed.self.map = map

\* A collection of three elements whose last element got there by a swap:
\* popping it and pushing it back is the case of the claim.
C9_Witness ==
    /\ call.op = "swap"
    /\ Len(items) = 3
    /\ At(items, 2) # At(old.items, 2)
    /\ push(pop(Self).self, unwrap(pop(Self).ret)).self = Self

-----------------------------------------------------------------------------
(* C10 *)

\* C10: lookup.  get(name) returns the element at the position the map
\* gives for the name and None when the name is not in the map; get(i)
\* returns the element at position i when i < len and None when i >= len;
\* no get panics, and get changes neither the sequence nor the map.
C10_Lookup ==
    call.op = "get" =>
        /\ ~panicked
        /\ items = old.items
        /\ map = old.map
        /\ call.lookup.tag = "Name" =>
               IF call.lookup.name \in DOMAIN old.map
               THEN /\ old.map[call.lookup.name] < Len(old.items)
                    /\ ret = Some(At(old.items, old.map[call.lookup.name]))
               ELSE ret = None
        /\ call.lookup.tag = "Index" =>
               IF call.lookup.index < Len(old.items)
               THEN ret = Some(At(old.items, call.lookup.index))
               ELSE ret = None

\* A get by name has found an element that is not at position 0.
C10_Witness ==
    /\ call.op = "get"
    /\ call.lookup.tag = "Name"
    /\ call.lookup.name \in DOMAIN old.map
    /\ old.map[call.lookup.name] >= 1
    /\ is_some(ret)

-----------------------------------------------------------------------------
(* C11 *)

\* C11: swap self.  When the two keys resolve to the same valid position
\* (the same name twice, the same position twice, or a name and the position
\* it maps to), swap returns normally and leaves the sequence and the map as
\* they were.
C11_SwapSelf ==
    (/\ call.op = "swap"
     /\ Resolves(old, call.first)
     /\ Resolves(old, call.second)
     /\ PositionOf(old, call.first) < Len(old.items)
     /\ PositionOf(old, call.first) = PositionOf(old, call.second))
        => /\ ~panicked
           /\ items = old.items
           /\ map = old.map

\* A swap has been called with a name and the position that name maps to,
\* which is not position 0.
C11_Witness ==
    /\ call.op = "swap"
    /\ call.first.tag = "Name"
    /\ call.second.tag = "Index"
    /\ Resolves(old, call.first)
    /\ PositionOf(old, call.first) = call.second.index
    /\ call.second.index >= 1
    /\ ~panicked

-----------------------------------------------------------------------------
(* C12 *)

\* C12: clear.  From every reachable state clear yields length 0 and an
\* empty map: afterwards every get, by name or by position, returns None and
\* is_empty is true.
C12_Clear ==
    call.op = "clear" =>
        /\ ~panicked
        /\ Len(items) = 0
        /\ DOMAIN map = {}
        /\ \A lookup \in Lookups : get(Self, lookup).ret = None
        /\ is_empty(Self)

\* A clear has emptied a collection of three elements.
C12_Witness ==
    /\ call.op = "clear"
    /\ Len(old.items) = 3
    /\ Len(items) = 0

-----------------------------------------------------------------------------
(* C14 *)

\* C14: truncate never panics.  In every reachable state truncate(n)
\* completes for every n; whenever the collection is not empty the map is
\* not empty, the largest position in it is len - 1, and so for n < len the
\* slice items[n..max+1] is within bounds; truncating an empty collection
\* changes nothing.
C14_TruncateNeverPanics ==
    /\ call.op = "truncate" => ~panicked
    /\ \A n \in 0..MaxArg : ~truncate(Self, n).panicked
    /\ Len(items) > 0 =>
           /\ DOMAIN map # {}
           /\ \A s \in DOMAIN map : map[s] <= Len(items) - 1
           /\ \E s \in DOMAIN map : map[s] = Len(items) - 1
           /\ MapValuesMax(map) = Some(Len(items) - 1)
    /\ Len(items) = 0 =>
           \A n \in 0..MaxArg : truncate(Self, n).self = Self

\* A truncate has dropped the last of three elements.
C14_Witness ==
    /\ call.op = "truncate"
    /\ call.len = 2
    /\ Len(old.items) = 3
    /\ old.map[name(At(old.items, 2))] = 2
    /\ Len(items) = 2
    /\ ~panicked

-----------------------------------------------------------------------------
(* C15 *)

\* C15: a swap that fails mutates nothing.  Whenever swap panics because a
\* key does not resolve, the sequence and the map are those of before the
\* call (no entry inserted, no elements exchanged), and the index invariant
\* holds.
C15_FailedSwapMutatesNothing ==
    (/\ call.op = "swap"
     /\ panicked
     /\ ~Resolves(old, call.first) \/ ~Resolves(old, call.second))
        => /\ items = old.items
           /\ map = old.map
           /\ \A i \in Positions(items) :
                  /\ name(At(items, i)) \in DOMAIN map
                  /\ map[name(At(items, i))] = i
           /\ \A s \in DOMAIN map : s \in NamesOf(items)

\* A swap of a name that resolves with a position beyond the length has
\* panicked, on a collection of two or more elements.
C15_Witness ==
    /\ call.op = "swap"
    /\ panicked
    /\ Len(old.items) >= 2
    /\ call.first.tag = "Name"
    /\ Resolves(old, call.first)
    /\ call.second.tag = "Index"
    /\ ~Resolves(old, call.second)

-----------------------------------------------------------------------------
(* C16 *)

\* The two key forms of position i of self: the position itself and the
\* name of the element there.
KeyForms(self, i) == {LookupIndex(i), LookupName(name(At(self.items, i)))}

\* C16: swap depends only on the resolved positions.  For keys that resolve
\* to valid positions i and j, the sequence and the map after swap are the
\* same whichever key form stands for each argument (name/name,
\* name/position, position/name, position/position) and whichever order the
\* two arguments come in.
C16_SwapByPositionOnly ==
    (/\ call.op = "swap"
     /\ Resolves(old, call.first)
     /\ Resolves(old, call.second)
     /\ PositionOf(old, call.first) < Len(old.items)
     /\ PositionOf(old, call.second) < Len(old.items))
        => LET i == PositionOf(old, call.first)
               j == PositionOf(old, call.second)
           IN  /\ ~panicked
               /\ \A k1 \in KeyForms(old, i) : \A k2 \in KeyForms(old, j) :
                      /\ ~swap(old, k1, k2).panicked
                      /\ swap(old, k1, k2).self = Self
                      /\ ~swap(old, k2, k1).panicked
                      /\ swap(old, k2, k1).self = Self

\* A swap called with a position and a name has exchanged two of three
\* elements.
C16_Witness ==
    /\ call.op = "swap"
    /\ call.first.tag = "Index"
    /\ call.second.tag = "Name"
    /\ Len(old.items) = 3
    /\ Resolves(old, call.first)
    /\ Resolves(old, call.second)
    /\ PositionOf(old, call.first) # PositionOf(old, call.second)
    /\ items # old.items

-----------------------------------------------------------------------------
(* C17 *)

\* C17: swap is an involution.  For two position keys that resolve to valid
\* positions, swap(i, j) applied twice in a row restores the sequence and
\* the map exactly.
C17_SwapInvolution ==
    (/\ call.op = "swap"
     /\ call.first.tag = "Index"
     /\ call.second.tag = "Index"
     /\ Resolves(old, call.first)
     /\ Resolves(old, call.second))
        => /\ ~panicked
           /\ ~swap(Self, call.first, call.second).panicked
           /\ swap(Self, call.first, call.second).self = old

\* A swap of two distinct positions has exchanged two of three elements.
C17_Witness ==
    /\ call.op = "swap"
    /\ call.first.tag = "Index"
    /\ call.second.tag = "Index"
    /\ Len(old.items) = 3
    /\ call.first.index = 1
    /\ call.second.index = 2
    /\ items # old.items

-----------------------------------------------------------------------------
(* C18 *)

\* The elements of v at the 0-based positions a .. b - 1, in position order.
ElementsBetween(v, a, b) == [k \in 1..(b - a) |-> At(v, a + k - 1)]

\* C18: position-range access.  For 0 <= a <= b <= len the accessors
\* [a..b], [..b], [a..] and [..] return exactly the elements at positions
\* a..b-1 (resp. 0..b-1, a..len-1, 0..len-1) in position order and change
\* nothing; a range endpoint beyond len is a panic, not a shortened view.
C18_RangeAccess ==
    LET n == Len(old.items)
    IN  /\ call.op = "index_Range" =>
               /\ items = old.items /\ map = old.map
               /\ (call.from <= call.to /\ call.to <= n) =>
                      /\ ~panicked
                      /\ ret = Some(ElementsBetween(old.items, call.from,
                                                    call.to))
               /\ (call.from > n \/ call.to > n) => panicked
        /\ call.op = "index_RangeTo" =>
               /\ items = old.items /\ map = old.map
               /\ call.to <= n =>
                      /\ ~panicked
                      /\ ret = Some(ElementsBetween(old.items, 0, call.to))
               /\ call.to > n => panicked
        /\ call.op = "index_RangeFrom" =>
               /\ items = old.items /\ map = old.map
               /\ call.from <= n =>
                      /\ ~panicked
                      /\ ret = Some(ElementsBetween(old.items, call.from, n))
               /\ call.from > n => panicked
        /\ call.op = "index_RangeFull" =>
               /\ items = old.items /\ map = old.map
               /\ ~panicked
               /\ ret = Some(ElementsBetween(old.items, 0, n))

\* The range 1..3 of a collection of three elements has been taken.
C18_Witness ==
    /\ call.op = "index_Range"
    /\ call.from = 1
    /\ call.to = 3
    /\ Len(old.items) = 3
    /\ ~panicked
    /\ ret = Some(<<At(old.items, 1), At(old.items, 2)>>)

-----------------------------------------------------------------------------
(* C19 *)

\* C19: length queries.  In every reachable state len is the number of
\* elements of the sequence and is_empty is true exactly when len is 0;
\* neither call changes the sequence or the map.
C19_LengthQueries ==
    /\ len(Self) = Cardinality(DOMAIN items)
    /\ is_empty(Self) <=> (len(Self) = 0)
    /\ call.op = "len" =>
           /\ ~panicked
           /\ ret = Some(Cardinality(DOMAIN old.items))
           /\ items = old.items /\ map = old.map
    /\ call.op = "is_empty" =>
           /\ ~panicked
           /\ ret = Some(Cardinality(DOMAIN old.items) = 0)
           /\ items = old.items /\ map = old.map

\* is_empty has been asked of a collection of three elements.
C19_Witness ==
    /\ call.op = "is_empty"
    /\ Len(old.items) = 3
    /\ ret = Some(FALSE)

-----------------------------------------------------------------------------
(* C13 *)

\* C13: capacity operations are transparent.  reserve(n) and shrink_to_fit
\* leave the length, the order of the elements and the result of every get
\* as they were; and a collection built by with_capacity(n), or one that
\* reserve(n) or shrink_to_fit was called on, has after any sequence of push,
\* pop, truncate, clear and swap the same sequence and map as a collection
\* built by new() that got the same calls and no reservation.
C13_CapacityTransparent ==
    /\ call.op \in {"reserve", "shrink_to_fit"} =>
           /\ Len(items) = Len(old.items)
           /\ items = old.items
           /\ \A lookup \in Lookups :
                  get(Self, lookup).ret = get(old, lookup).ret
    /\ items = plain.items
    /\ map = plain.map

\* reserve(2) has been called on a collection of three elements, which a
\* swap and a replacing push could have shaped, and the collection built by
\* new() that did not get the call has the same sequence and map.
C13_Witness ==
    /\ call.op = "reserve"
    /\ call.additional = 2
    /\ Len(old.items) = 3
    /\ items = plain.items
    /\ map = plain.map
    /\ plain.map[name(At(plain.items, 2))] = 2

====
